---- MODULE Spec2Model ----
(***************************************************************************)
(* Model of the folder-structure API route                                 *)
(* (src/src/app/api/folder-structure/route.ts): the POST handler with its  *)
(* path allow-list, and the recursive, per-level limited scanDirectory.    *)
(*                                                                         *)
(* A JavaScript string is a sequence of one-character strings, so that     *)
(* startsWith, split, join and localeCompare are computed, not assumed.    *)
(* An optional field (children?, truncated?, totalCount?, a missing JSON   *)
(* field, NaN) is a sequence of length 0 (absent) or 1 (present).          *)
(***************************************************************************)
EXTENDS Integers, Sequences, FiniteSets, TLC

\* ------------------------------------------------------------------------
\* Strings

None == <<>>
Some(v) == <<v>>

\* String.prototype.startsWith
StartsWith(s, pre) == Len(pre) <= Len(s) /\ SubSeq(s, 1, Len(pre)) = pre

Last(s) == s[Len(s)]
Front(s) == SubSeq(s, 1, Len(s) - 1)

RECURSIVE SplitFrom(_, _, _)
SplitFrom(s, seps, cur) ==
    IF s = <<>> THEN <<cur>>
    ELSE IF Head(s) \in seps
         THEN <<cur>> \o SplitFrom(Tail(s), seps, <<>>)
         ELSE SplitFrom(Tail(s), seps, Append(cur, Head(s)))

\* the segments of s between separator characters (String.prototype.split)
Split(s, seps) == SplitFrom(s, seps, <<>>)

RECURSIVE JoinSegs(_, _)
\* Array.prototype.join
JoinSegs(segs, sep) ==
    IF segs = <<>> THEN <<>>
    ELSE IF Len(segs) = 1 THEN segs[1]
    ELSE segs[1] \o sep \o JoinSegs(Tail(segs), sep)

\* ------------------------------------------------------------------------
\* Node's path module, POSIX flavour

Slash == <<"/">>
Dot == <<".">>
DotDot == <<".", ".">>

RECURSIVE NormalizeSegs(_, _, _)
\* normalizeString: drop empty and '.' segments, let '..' remove the segment
\* before it; above the start, '..' is kept (relative) or dropped (absolute)
NormalizeSegs(segs, allowAboveRoot, acc) ==
    IF segs = <<>> THEN acc
    ELSE LET seg == Head(segs)
             rest == Tail(segs)
         IN  IF seg = <<>> \/ seg = Dot
             THEN NormalizeSegs(rest, allowAboveRoot, acc)
             ELSE IF seg = DotDot
             THEN IF acc # <<>> /\ Last(acc) # DotDot
                  THEN NormalizeSegs(rest, allowAboveRoot, Front(acc))
                  ELSE IF allowAboveRoot
                       THEN NormalizeSegs(rest, allowAboveRoot, Append(acc, seg))
                       ELSE NormalizeSegs(rest, allowAboveRoot, acc)
             ELSE NormalizeSegs(rest, allowAboveRoot, Append(acc, seg))

\* path.isAbsolute
PosixIsAbsolute(p) == p # <<>> /\ p[1] = "/"

\* path.normalize
PosixNormalize(p) ==
    IF p = <<>> THEN Dot
    ELSE LET abs == PosixIsAbsolute(p)
             trailing == Last(p) = "/"
             body == JoinSegs(NormalizeSegs(Split(p, {"/"}), ~abs, <<>>), Slash)
         IN  IF body = <<>>
             THEN (IF abs THEN Slash ELSE IF trailing THEN Dot \o Slash ELSE Dot)
             ELSE (IF abs THEN Slash ELSE <<>>) \o body
                  \o (IF trailing THEN Slash ELSE <<>>)

\* path.join(a, b): the non-empty arguments joined with '/', then normalized
PosixJoin(a, b) ==
    IF a = <<>> /\ b = <<>> THEN Dot
    ELSE IF a = <<>> THEN PosixNormalize(b)
    ELSE IF b = <<>> THEN PosixNormalize(a)
    ELSE PosixNormalize(a \o Slash \o b)

RECURSIVE PosixChain(_, _, _)
\* path.resolve reads its arguments from the last to the first until the
\* path is absolute, and then falls back on the working directory
PosixChain(args, workDir, acc) ==
    IF PosixIsAbsolute(acc) THEN acc
    ELSE IF args = <<>> THEN workDir \o Slash \o acc
    ELSE IF Last(args) = <<>> THEN PosixChain(Front(args), workDir, acc)
    ELSE PosixChain(Front(args), workDir, Last(args) \o Slash \o acc)

\* path.resolve(...args): absolute, normalized, without a trailing slash
PosixResolve(workDir, args) ==
    Slash \o JoinSegs(NormalizeSegs(Split(PosixChain(args, workDir, <<>>), {"/"}),
                                    FALSE, <<>>), Slash)

\* ------------------------------------------------------------------------
\* Node's path module, Windows flavour

Backslash == <<"\\">>
WinSeps == {"/", "\\"}

LowerLetters == <<"a", "b", "c", "d", "e", "f", "g", "h", "i", "j", "k", "l", "m",
                  "n", "o", "p", "q", "r", "s", "t", "u", "v", "w", "x", "y", "z">>
UpperLetters == <<"A", "B", "C", "D", "E", "F", "G", "H", "I", "J", "K", "L", "M",
                  "N", "O", "P", "Q", "R", "S", "T", "U", "V", "W", "X", "Y", "Z">>

IndexOf(seq, c) == CHOOSE i \in 1..Len(seq) : seq[i] = c
InSeq(seq, c) == \E i \in 1..Len(seq) : seq[i] = c

IsUpper(c) == InSeq(UpperLetters, c)
ToLower(c) == IF IsUpper(c) THEN LowerLetters[IndexOf(UpperLetters, c)] ELSE c
ToUpper(c) == IF InSeq(LowerLetters, c) THEN UpperLetters[IndexOf(LowerLetters, c)] ELSE c
\* String.prototype.toLowerCase
LowerAll(s) == [j \in 1..Len(s) |-> ToLower(s[j])]

\* isWindowsDeviceRoot
IsDeviceLetter(c) == InSeq(LowerLetters, c) \/ InSeq(UpperLetters, c)

RECURSIVE RunEnd(_, _, _)
\* the first index from j on whose character is not of the run (separators
\* or not), or one past the end
RunEnd(p, j, ofSeps) ==
    IF j <= Len(p) /\ ((p[j] \in WinSeps) = ofSeps) THEN RunEnd(p, j + 1, ofSeps) ELSE j

\* the root of a path: its device (a drive 'X:' or a UNC '\\server\share'),
\* how many characters the root takes, and whether the path is absolute
Win32Root(p) ==
    LET none == [device |-> <<>>, rootEnd |-> 0, abs |-> FALSE]
    IN  IF Len(p) = 0 THEN none
        ELSE IF Len(p) = 1
        THEN (IF p[1] \in WinSeps THEN [device |-> <<>>, rootEnd |-> 1, abs |-> TRUE]
              ELSE none)
        ELSE IF p[1] \in WinSeps
        THEN IF p[2] \in WinSeps
             THEN LET a == RunEnd(p, 3, FALSE)
                      b == RunEnd(p, a, TRUE)
                      c == RunEnd(p, b, FALSE)
                  IN  IF a <= Len(p) /\ a # 3 /\ b <= Len(p) /\ b # a
                      THEN [device |-> Backslash \o Backslash \o SubSeq(p, 3, a - 1)
                                       \o Backslash \o SubSeq(p, b, c - 1),
                            rootEnd |-> c - 1, abs |-> TRUE]
                      ELSE [device |-> <<>>, rootEnd |-> 0, abs |-> TRUE]
             ELSE [device |-> <<>>, rootEnd |-> 1, abs |-> TRUE]
        ELSE IF IsDeviceLetter(p[1]) /\ p[2] = ":"
        THEN IF Len(p) > 2 /\ p[3] \in WinSeps
             THEN [device |-> SubSeq(p, 1, 2), rootEnd |-> 3, abs |-> TRUE]
             ELSE [device |-> SubSeq(p, 1, 2), rootEnd |-> 2, abs |-> FALSE]
        ELSE none

\* path.isAbsolute
Win32IsAbsolute(p) ==
    /\ Len(p) > 0
    /\ \/ p[1] \in WinSeps
       \/ Len(p) > 2 /\ IsDeviceLetter(p[1]) /\ p[2] = ":" /\ p[3] \in WinSeps

\* path.normalize
Win32Normalize(p) ==
    IF p = <<>> THEN Dot
    ELSE IF Len(p) = 1 THEN (IF p[1] = "/" THEN Backslash ELSE p)
    ELSE LET root == Win32Root(p)
             uncOnly == root.device # <<>> /\ root.abs /\ p[1] \in WinSeps
                        /\ root.rootEnd = Len(p)
             body == JoinSegs(NormalizeSegs(
                         Split(SubSeq(p, root.rootEnd + 1, Len(p)), WinSeps),
                         ~root.abs, <<>>), Backslash)
             tail == IF body = <<>> /\ ~root.abs THEN Dot ELSE body
             slashed == IF tail # <<>> /\ Last(p) \in WinSeps
                        THEN tail \o Backslash ELSE tail
         IN  IF uncOnly THEN root.device \o Backslash
             ELSE IF root.abs THEN root.device \o Backslash \o slashed
             ELSE root.device \o slashed

\* path.join(a, b): the non-empty arguments joined with '\', leading
\* separators of a non-UNC start reduced to one, then normalized
Win32Join(a, b) ==
    IF a = <<>> /\ b = <<>> THEN Dot
    ELSE LET first == IF a # <<>> THEN a ELSE b
             joined == IF a = <<>> THEN b ELSE IF b = <<>> THEN a
                       ELSE a \o Backslash \o b
             isUnc == /\ Len(first) > 2
                      /\ first[1] \in WinSeps /\ first[2] \in WinSeps
                      /\ first[3] \notin WinSeps
             lead == RunEnd(joined, 1, TRUE) - 1
         IN  IF ~isUnc /\ lead >= 2
             THEN Win32Normalize(Backslash \o SubSeq(joined, lead + 1, Len(joined)))
             ELSE Win32Normalize(joined)

\* what path.resolve returns once its loop has ended
Win32Resolved(device, tail, abs) ==
    LET body == JoinSegs(NormalizeSegs(Split(tail, WinSeps), ~abs, <<>>), Backslash)
    IN  IF abs THEN device \o Backslash \o body
        ELSE IF device \o body = <<>> THEN Dot
        ELSE device \o body

RECURSIVE Win32ResolveFrom(_, _, _, _, _, _)
\* the loop of path.resolve from argument i down; at i = 0 the path is the
\* working directory, or the root of the device found when that is on
\* another drive (no per-drive working directory is set)
Win32ResolveFrom(args, i, workDir, device, tail, abs) ==
    IF i < 0 THEN Win32Resolved(device, tail, abs)
    ELSE LET path ==
                 IF i >= 1 THEN args[i]
                 ELSE IF device = <<>> THEN workDir
                 ELSE IF /\ LowerAll(SubSeq(workDir, 1, 2)) # LowerAll(device)
                         /\ Len(workDir) >= 3 /\ workDir[3] = "\\"
                      THEN device \o Backslash
                      ELSE workDir
             root == Win32Root(path)
             other == /\ root.device # <<>> /\ device # <<>>
                      /\ LowerAll(root.device) # LowerAll(device)
             device2 == IF root.device # <<>> /\ device = <<>> THEN root.device
                        ELSE device
             tail2 == SubSeq(path, root.rootEnd + 1, Len(path)) \o Backslash \o tail
         IN  IF i >= 1 /\ path = <<>>
             THEN Win32ResolveFrom(args, i - 1, workDir, device, tail, abs)
             ELSE IF other
             THEN Win32ResolveFrom(args, i - 1, workDir, device, tail, abs)
             ELSE IF abs
             THEN (IF device2 # <<>> THEN Win32Resolved(device2, tail, abs)
                   ELSE Win32ResolveFrom(args, i - 1, workDir, device2, tail, abs))
             ELSE IF root.abs /\ device2 # <<>>
             THEN Win32Resolved(device2, tail2, TRUE)
             ELSE Win32ResolveFrom(args, i - 1, workDir, device2, tail2, root.abs)

\* path.resolve(...args)
Win32Resolve(workDir, args) ==
    Win32ResolveFrom(args, Len(args), workDir, <<>>, <<>>, FALSE)

\* ------------------------------------------------------------------------
\* parseInt and the applied limit (route.ts line 121)

DecDigits == <<"0", "1", "2", "3", "4", "5", "6", "7", "8", "9">>
HexDigits == DecDigits \o <<"a", "b", "c", "d", "e", "f">>
Whitespace == {" ", "\t", "\n"}

\* a hex letter is accepted in either case
LowerHex(c) ==
    CASE c = "A" -> "a" [] c = "B" -> "b" [] c = "C" -> "c"
      [] c = "D" -> "d" [] c = "E" -> "e" [] c = "F" -> "f"
      [] OTHER -> c

IsDigitIn(c, radix) ==
    /\ InSeq(HexDigits, LowerHex(c))
    /\ IndexOf(HexDigits, LowerHex(c)) <= radix

DigitVal(c) == IndexOf(HexDigits, LowerHex(c)) - 1

RECURSIVE IntDigits(_)
IntDigits(n) ==
    IF n < 10 THEN <<DecDigits[n + 1]>>
    ELSE Append(IntDigits(n \div 10), DecDigits[(n % 10) + 1])

\* Number.prototype.toString of an integer
IntToString(n) == IF n < 0 THEN <<"-">> \o IntDigits(-n) ELSE IntDigits(n)

RECURSIVE SkipWhitespace(_)
SkipWhitespace(s) ==
    IF s # <<>> /\ Head(s) \in Whitespace THEN SkipWhitespace(Tail(s)) ELSE s

RECURSIVE DigitPrefix(_, _)
\* the longest prefix of s made of digits of the radix
DigitPrefix(s, radix) ==
    IF s # <<>> /\ IsDigitIn(Head(s), radix)
    THEN <<Head(s)>> \o DigitPrefix(Tail(s), radix)
    ELSE <<>>

RECURSIVE DigitsValue(_, _, _)
DigitsValue(ds, radix, acc) ==
    IF ds = <<>> THEN acc
    ELSE DigitsValue(Tail(ds), radix, acc * radix + DigitVal(Head(ds)))

\* parseInt of a string: leading white space, a sign, an optional 0x, then
\* the digits up to the first character that is none; NaN (None) without digits
ParseIntString(s) ==
    LET s1 == SkipWhitespace(s)
        neg == s1 # <<>> /\ Head(s1) = "-"
        s2 == IF s1 # <<>> /\ Head(s1) \in {"-", "+"} THEN Tail(s1) ELSE s1
        hex == Len(s2) >= 2 /\ s2[1] = "0" /\ s2[2] \in {"x", "X"}
        radix == IF hex THEN 16 ELSE 10
        s3 == IF hex THEN SubSeq(s2, 3, Len(s2)) ELSE s2
        ds == DigitPrefix(s3, radix)
    IN  IF ds = <<>> THEN None
        ELSE Some((IF neg THEN -1 ELSE 1) * DigitsValue(ds, radix, 0))

\* A JSON value of the request body: [kind, num, str] with kind
\* "absent" (no such field), "null", "bool", "num" (an integer) or "str"
JAbsent == [kind |-> "absent", num |-> 0, str |-> <<>>]
JNull == [kind |-> "null", num |-> 0, str |-> <<>>]
JBool(b) == [kind |-> "bool", num |-> IF b THEN 1 ELSE 0, str |-> <<>>]
JNum(n) == [kind |-> "num", num |-> n, str |-> <<>>]
JStr(s) == [kind |-> "str", num |-> 0, str |-> s]

\* ToString, as parseInt applies it to its argument
JsToString(v) ==
    CASE v.kind = "str" -> v.str
      [] v.kind = "num" -> IntToString(v.num)
      [] v.kind = "null" -> <<"n", "u", "l", "l">>
      [] v.kind = "bool" -> (IF v.num = 1 THEN <<"t", "r", "u", "e">>
                                          ELSE <<"f", "a", "l", "s", "e">>)
      [] OTHER -> <<"u", "n", "d", "e", "f", "i", "n", "e", "d">>

ParseInt(v) == ParseIntString(JsToString(v))

DefaultLimit == 20
MinLimit == 1
MaxLimit == 100

Max(a, b) == IF a >= b THEN a ELSE b
Min(a, b) == IF a <= b THEN a ELSE b

\* x || 20 on the result of parseInt: NaN and 0 are falsy
OrDefault(parsed) ==
    IF parsed = None \/ parsed[1] = 0 THEN DefaultLimit ELSE parsed[1]

\* const { fileLimit = 20 } = body;
\* const limit = Math.max(1, Math.min(100, parseInt(fileLimit) || 20));
AppliedLimit(fileLimit) ==
    LET given == IF fileLimit.kind = "absent" THEN JNum(DefaultLimit) ELSE fileLimit
    IN  Max(MinLimit, Min(MaxLimit, OrDefault(ParseInt(given))))

\* ------------------------------------------------------------------------
\* Directory entries, the filter and the sort of scanDirectory

NodeModules == <<"n", "o", "d", "e", "_", "m", "o", "d", "u", "l", "e", "s">>
DotGit == <<".", "g", "i", "t">>
Ellipsis == <<".", ".", ".">>

\* the first pass without its second `continue`
SkippedHiddenOnly(name) == StartsWith(name, Dot)

\* the three `continue`s of the first pass
Skipped(name) ==
    \/ StartsWith(name, Dot)
    \/ name = NodeModules
    \/ name = DotGit

\* the collation order of the characters names are made of: punctuation,
\* digits, letters
CollationOrder == <<"_", "-", ".">> \o DecDigits \o LowerLetters

Primary(c) == IndexOf(CollationOrder, ToLower(c))

RECURSIVE ComparePrimary(_, _)
ComparePrimary(a, b) ==
    IF a = <<>> /\ b = <<>> THEN 0
    ELSE IF a = <<>> THEN -1
    ELSE IF b = <<>> THEN 1
    ELSE IF Primary(Head(a)) < Primary(Head(b)) THEN -1
    ELSE IF Primary(Head(a)) > Primary(Head(b)) THEN 1
    ELSE ComparePrimary(Tail(a), Tail(b))

RECURSIVE CompareCase(_, _)
CompareCase(a, b) ==
    IF a = <<>> \/ b = <<>> THEN 0
    ELSE IF ~IsUpper(Head(a)) /\ IsUpper(Head(b)) THEN -1
    ELSE IF IsUpper(Head(a)) /\ ~IsUpper(Head(b)) THEN 1
    ELSE CompareCase(Tail(a), Tail(b))

\* Two code units outside ASCII, written by their numbers: e with acute as
\* one code unit, and the combining acute that follows a plain e
EAcute == "U+00E9"
CombiningAcute == "U+0301"

RECURSIVE Decomposed(_)
\* the canonical decomposition of a name
Decomposed(s) ==
    IF s = <<>> THEN <<>>
    ELSE IF Head(s) = EAcute THEN <<"e", CombiningAcute>> \o Decomposed(Tail(s))
    ELSE <<Head(s)>> \o Decomposed(Tail(s))

\* the letters of a decomposed name, and for each whether it bears an accent
BaseLetters(s) == SelectSeq(s, LAMBDA c : c # CombiningAcute)

RECURSIVE Accents(_)
Accents(s) ==
    IF s = <<>> THEN <<>>
    ELSE IF Head(s) = CombiningAcute THEN Accents(Tail(s))
    ELSE <<Len(s) > 1 /\ s[2] = CombiningAcute>> \o Accents(Tail(s))

RECURSIVE CompareAccents(_, _)
CompareAccents(a, b) ==
    IF a = <<>> \/ b = <<>> THEN 0
    ELSE IF ~Head(a) /\ Head(b) THEN -1
    ELSE IF Head(a) /\ ~Head(b) THEN 1
    ELSE CompareAccents(Tail(a), Tail(b))

\* String.prototype.localeCompare in the default locale: the letters
\* regardless of accent and case decide first, then plain sorts before
\* accented, then lower case before upper case; canonically equivalent
\* names compare equal (0)
LocaleCompare(a, b) ==
    LET x == Decomposed(a)
        y == Decomposed(b)
    IN  IF ComparePrimary(BaseLetters(x), BaseLetters(y)) # 0
        THEN ComparePrimary(BaseLetters(x), BaseLetters(y))
        ELSE IF CompareAccents(Accents(x), Accents(y)) # 0
        THEN CompareAccents(Accents(x), Accents(y))
        ELSE CompareCase(BaseLetters(x), BaseLetters(y))

\* a comparator that only compares the names
CompareNamesOnly(a, b) == LocaleCompare(a.name, b.name)

\* the comparator handed to allItems.sort
CompareItems(a, b) ==
    IF a.type = "folder" /\ b.type = "file" THEN -1
    ELSE IF a.type = "file" /\ b.type = "folder" THEN 1
    ELSE LocaleCompare(a.name, b.name)

RECURSIVE InsertSorted(_, _)
\* x goes after every element that does not compare greater (a stable sort)
InsertSorted(sorted, x) ==
    IF sorted = <<>> THEN <<x>>
    ELSE IF CompareItems(Head(sorted), x) <= 0
         THEN <<Head(sorted)>> \o InsertSorted(Tail(sorted), x)
         ELSE <<x>> \o sorted

RECURSIVE SortItems(_)
\* Array.prototype.sort with CompareItems
SortItems(items) ==
    IF items = <<>> THEN <<>>
    ELSE InsertSorted(SortItems(Front(items)), Last(items))

\* ------------------------------------------------------------------------
\* The filesystem the handler runs against: a tree of entries, each
\* directory holding its entries in the order the disk keeps them

File(n) == [name |-> n, isDir |-> FALSE, entries |-> <<>>]
Dir(n, es) == [name |-> n, isDir |-> TRUE, entries |-> es]

RECURSIVE Lookup(_, _)
\* the entry a list of path segments leads to from a directory, if any
Lookup(dir, segs) ==
    IF segs = <<>> THEN Some(dir)
    ELSE IF ~dir.isDir THEN None
    ELSE LET hits == SelectSeq(dir.entries, LAMBDA e : e.name = Head(segs))
         IN  IF hits = <<>> THEN None ELSE Lookup(hits[1], Tail(segs))

\* the one drive a Windows host has
SystemDrive == "C"

\* the entry an absolute path names; on Windows the path begins with a
\* drive, in either case of its letter, and the tree is that of the one drive
EntryAt(plat, root, path) ==
    LET segs == SelectSeq(Split(path, IF plat = "win32" THEN WinSeps ELSE {"/"}),
                          LAMBDA seg : seg # <<>>)
    IN  IF plat = "win32"
        THEN IF /\ segs # <<>> /\ path[1] \notin WinSeps
                /\ Len(segs[1]) = 2 /\ segs[1][2] = ":"
                /\ ToUpper(segs[1][1]) = SystemDrive
             THEN Lookup(root, Tail(segs))
             ELSE None
        ELSE Lookup(root, segs)

\* a stat whose isDirectory() answer is not looked at
FsStatExists(plat, root, path) ==
    IF EntryAt(plat, root, path) = None THEN None ELSE Some(TRUE)

\* fs.stat: None when it throws, else whether the path is a directory
FsStat(plat, root, path) ==
    IF EntryAt(plat, root, path) = None THEN None
    ELSE Some(EntryAt(plat, root, path)[1].isDir)

\* fs.readdir with withFileTypes: the Dirents of a directory, in disk order
FsReaddir(plat, root, path) ==
    LET es == EntryAt(plat, root, path)[1].entries
    IN  [j \in 1..Len(es) |-> [name |-> es[j].name, isDir |-> es[j].isDir]]

Reverse(s) == [j \in 1..Len(s) |-> s[Len(s) + 1 - j]]
Rotate(s, k) == [j \in 1..Len(s) |-> s[((j + k - 1) % Len(s)) + 1]]

\* readdir promises no order: the orders a listing may come back in
ListingOrders(s) ==
    IF s = <<>> THEN {<<>>}
    ELSE {Rotate(s, k) : k \in 0..(Len(s) - 1)}
         \cup {Reverse(Rotate(s, k)) : k \in 0..(Len(s) - 1)}

\* ------------------------------------------------------------------------
\* scanDirectory (route.ts lines 14-107)

\* the path module of the platform
PathJoin(plat, a, b) == IF plat = "win32" THEN Win32Join(a, b) ELSE PosixJoin(a, b)
PathResolve(plat, workDir, args) ==
    IF plat = "win32" THEN Win32Resolve(workDir, args) ELSE PosixResolve(workDir, args)
PathIsAbsolute(plat, p) ==
    IF plat = "win32" THEN Win32IsAbsolute(p) ELSE PosixIsAbsolute(p)

\* const relativePath = basePath ? path.join(basePath, item.name) : item.name
RelativePath(plat, basePath, name) ==
    IF basePath # <<>> THEN PathJoin(plat, basePath, name) ELSE name

RECURSIVE FirstPass(_, _, _)
\* the first pass: the entries that are not skipped, each with its relative
\* path and its type, in the order of the listing
FirstPass(plat, items, basePath) ==
    IF items = <<>> THEN <<>>
    ELSE LET item == Head(items)
             rest == FirstPass(plat, Tail(items), basePath)
         IN  IF Skipped(item.name) THEN rest
             ELSE <<[name |-> item.name,
                     path |-> RelativePath(plat, basePath, item.name),
                     type |-> IF item.isDir THEN "folder" ELSE "file"]>> \o rest

FileNode(item) ==
    [name |-> item.name, path |-> item.path, type |-> "file",
     children |-> None, truncated |-> None, totalCount |-> None]

\* children: children.length > 0 ? children : undefined
FolderNode(item, children) ==
    [name |-> item.name, path |-> item.path, type |-> "folder",
     children |-> IF Len(children) > 0 THEN Some(children) ELSE None,
     truncated |-> None, totalCount |-> None]

\* the truncated indicator: path is `${basePath || ''}...`
TruncatedNode(basePath, total) ==
    [name |-> Ellipsis, path |-> basePath \o Ellipsis, type |-> "folder",
     children |-> None, truncated |-> Some(TRUE), totalCount |-> Some(total)]

\* the truncation test without its second half
MustTruncateAtLimit(count, fileLimit, i, total) == count >= fileLimit

\* nodes.length >= fileLimit && i < allItems.length - 1, with i counted from 1
MustTruncate(count, fileLimit, i, total) == count >= fileLimit /\ i < total

\* One activation of scanDirectory: its arguments and locals. The frame on
\* top of the stack is the one waiting for its readdir.
NewFrame(dirPath, basePath) ==
    [dirPath |-> dirPath, basePath |-> basePath, allItems |-> <<>>, i |-> 0,
     nodes |-> <<>>]

\* The state of a scan: the stack of activations, the structure once the
\* outermost call has returned, whether an exception left the outermost
\* call, and the record of every call that has returned
Top(st) == Last(st.stack)
SetTop(st, f) == [st EXCEPT !.stack = Append(Front(st.stack), f)]

CallRecord(f, ok) ==
    [dirPath |-> f.dirPath, basePath |-> f.basePath, ok |-> ok,
     allItems |-> f.allItems, nodes |-> f.nodes]

RECURSIVE RunLoop(_, _, _)
RECURSIVE AfterPush(_, _, _)
RECURSIVE ReturnNodes(_, _, _, _)

\* a loop that tests the limit before it descends: the folder the
\* indicator is about to replace is pushed without being scanned
RunLoopSkipsDiscarded(plat, lim, st) ==
    LET f == Top(st)
    IN  IF f.i > Len(f.allItems) THEN ReturnNodes(plat, lim, st, TRUE)
        ELSE LET item == f.allItems[f.i]
             IN  IF item.type = "folder"
                    /\ ~MustTruncate(Len(f.nodes) + 1, lim, f.i, Len(f.allItems))
                 THEN [st EXCEPT !.stack =
                          Append(@, NewFrame(PathJoin(plat, f.dirPath, item.name),
                                             item.path))]
                 ELSE AfterPush(plat, lim,
                          SetTop(st, [f EXCEPT !.nodes = Append(@, FileNode(item))]))

\* the second loop from item i of the top frame, up to the next await:
\* a folder starts a recursive call, which at once awaits its readdir
RunLoop(plat, lim, st) ==
    LET f == Top(st)
    IN  IF f.i > Len(f.allItems) THEN ReturnNodes(plat, lim, st, TRUE)
        ELSE LET item == f.allItems[f.i]
             IN  IF item.type = "folder"
                 THEN [st EXCEPT !.stack =
                          Append(@, NewFrame(PathJoin(plat, f.dirPath, item.name),
                                             item.path))]
                 ELSE AfterPush(plat, lim,
                          SetTop(st, [f EXCEPT !.nodes = Append(@, FileNode(item))]))

\* after a node was pushed: truncate and stop, or go on with the next item
AfterPush(plat, lim, st) ==
    LET f == Top(st)
    IN  IF MustTruncate(Len(f.nodes), lim, f.i, Len(f.allItems))
        THEN ReturnNodes(plat, lim,
                 SetTop(st, [f EXCEPT !.nodes =
                     Append(Front(@), TruncatedNode(f.basePath, Len(f.allItems)))]),
                 TRUE)
        ELSE RunLoop(plat, lim, SetTop(st, [f EXCEPT !.i = @ + 1]))

\* the top frame returns its nodes: to the POST handler, or to the caller's
\* loop, which pushes the folder and goes on
ReturnNodes(plat, lim, st, ok) ==
    LET f == Top(st)
        rest == Front(st.stack)
        logged == Append(st.calls, CallRecord(f, ok))
    IN  IF rest = <<>>
        THEN [stack |-> <<>>, structure |-> Some(f.nodes), threw |-> FALSE,
              calls |-> logged]
        ELSE LET parent == Last(rest)
                 item == parent.allItems[parent.i]
                 pushed == [parent EXCEPT !.nodes = Append(@, FolderNode(item, f.nodes))]
             IN  AfterPush(plat, lim,
                     [st EXCEPT !.stack = Append(Front(rest), pushed),
                                !.calls = logged])

\* an exception leaves the call on top of the stack: the caller's inner
\* catch adds the folder without children; out of the outermost call it
\* reaches the catch of POST
Raise(plat, lim, st) ==
    LET f == Top(st)
        rest == Front(st.stack)
        logged == Append(st.calls, CallRecord(f, FALSE))
    IN  IF rest = <<>>
        THEN [stack |-> <<>>, structure |-> None, threw |-> TRUE, calls |-> logged]
        ELSE LET parent == Last(rest)
                 item == parent.allItems[parent.i]
                 pushed == [parent EXCEPT !.nodes = Append(@, FolderNode(item, <<>>))]
             IN  AfterPush(plat, lim,
                     [st EXCEPT !.stack = Append(Front(rest), pushed),
                                !.calls = logged])

\* readdir resolved: first pass, sort, then the second loop
ScanListed(plat, lim, st, items) ==
    LET f == Top(st)
        listed == [f EXCEPT !.allItems = SortItems(FirstPass(plat, items, f.basePath)),
                            !.i = 1]
    IN  RunLoop(plat, lim, SetTop(st, listed))

\* a scanDirectory whose outer catch lets the exception go
ScanCatchRethrows(plat, lim, st) == Raise(plat, lim, st)

\* readdir rejected: the outer catch logs and returns []
ScanCatch(plat, lim, st) == ReturnNodes(plat, lim, st, FALSE)

\* a count that does not descend into children
CountTopLevel(nodes) == Len(nodes)

RECURSIVE CountNodes(_)
\* countNodes
CountNodes(nodes) ==
    IF nodes = <<>> THEN 0
    ELSE LET node == Head(nodes)
         IN  1 + (IF node.children # None THEN CountNodes(node.children[1]) ELSE 0)
               + CountNodes(Tail(nodes))

\* ------------------------------------------------------------------------
\* The POST handler (route.ts lines 109-199)

\* !requestedPath
Falsy(v) ==
    \/ v.kind \in {"absent", "null"}
    \/ v.kind = "str" /\ v.str = <<>>
    \/ v.kind \in {"num", "bool"} /\ v.num = 0

\* the three branches that choose targetPath
TargetPath(plat, workDir, requested) ==
    IF StartsWith(requested, Dot) THEN PathResolve(plat, workDir, <<workDir, requested>>)
    ELSE IF PathIsAbsolute(plat, requested) THEN requested
    ELSE PathResolve(plat, workDir, <<workDir, requested>>)

\* the check applied to targetPath, without path.resolve
ResolvedPathUnresolved(plat, workDir, requested) == TargetPath(plat, workDir, requested)

\* const resolvedPath = path.resolve(targetPath)
ResolvedPath(plat, workDir, requested) ==
    PathResolve(plat, workDir, <<TargetPath(plat, workDir, requested)>>)

\* String.prototype.includes
Includes(s, sub) ==
    \E k \in 0..(Len(s) - Len(sub)) : SubSeq(s, k + 1, k + Len(sub)) = sub

ValidDrives == {UpperLetters[k] : k \in 3..26}

UnixPrefixes ==
    { <<"/", "t", "m", "p">>, <<"/", "h", "o", "m", "e">>,
      <<"/", "U", "s", "e", "r", "s">>, <<"/", "v", "a", "r", "/", "t", "m", "p">> }

\* a check that lets every path through
IsAllowedEverywhere(plat, workDir, resolved) == TRUE

\* the security check: isAllowed
IsAllowed(plat, workDir, resolved) ==
    IF plat = "win32"
    THEN ToUpper(resolved[1]) \in ValidDrives /\ Includes(resolved, <<":", "\\">>)
    ELSE \/ StartsWith(resolved, workDir)
         \/ \E pre \in UnixPrefixes : StartsWith(resolved, pre)

ErrorResponse(status, message) ==
    [status |-> status, error |-> Some(message), structure |-> None,
     path |-> None, count |-> None, fileLimit |-> None]

SuccessResponse(structure, scanned, lim) ==
    [status |-> 200, error |-> None, structure |-> Some(structure),
     path |-> Some(scanned), count |-> Some(CountNodes(structure)),
     fileLimit |-> Some(lim)]

\* the body of a request: { path, fileLimit }, or one request.json() rejects
Body(p, fl) == [json |-> TRUE, path |-> p, fileLimit |-> fl]
Malformed == [json |-> FALSE, path |-> JAbsent, fileLimit |-> JAbsent]

\* ------------------------------------------------------------------------
\* The environment of a run: platform, working directory, disk, requests

\* most entries of /tmp a disk holds
MaxEntries == 6
\* most segments of a generated request path
MaxSegs == 2
\* most readdir calls of one request that fail
MaxFailures == 2

Platforms == {"posix", "win32"}

\* process.cwd() of the server
Cwd(plat) == IF plat = "win32" THEN <<"C", ":", "\\", "w">> ELSE <<"/", "w">>

NameTmp == <<"t", "m", "p">>
NameEtc == <<"e", "t", "c">>
NameDotEnv == <<".", "e", "n", "v">>

\* what /tmp may hold, in disk order (not sorted)
ProjectPool ==
    << File(<<"b">>),
       Dir(<<"s">>, << File(<<"B">>),
                       Dir(<<"d">>, << File(<<"x">>), File(<<".", "h">>) >>),
                       File(<<"a">>),
                       File(<<"A">>) >>),
       File(NameDotEnv),
       Dir(NodeModules, << File(<<"m">>) >>),
       File(<<"a">>),
       Dir(<<"D">>, << File(<<"z">>), Dir(<<"e">>, << File(<<"o">>) >>),
                       File(<<"y">>) >>),
       Dir(DotGit, << File(<<"c">>) >>),
       File(<<"C">>) >>

\* the disk whose /tmp holds the first k entries of the pool
Disk(k) ==
    Dir(<<>>,
        << Dir(NameEtc, << File(<<"c">>) >>),
           Dir(NameTmp, SubSeq(ProjectPool, 1, k)),
           Dir(<<"t", "m", "p", "x">>, << File(<<"q">>) >>),
           Dir(<<"w">>, << File(<<"f">>),
                           Dir(<<"s">>, << File(<<"r">>), File(<<".", "k">>) >>),
                           Dir(<<"u">>, << File(<<"e", CombiningAcute>>),
                                           File(<<"e">>),
                                           File(<<EAcute>>) >>) >>),
           Dir(<<"v", "a", "r">>, << Dir(NameTmp, <<>>) >>) >>)

Disks == {Disk(k) : k \in 0..Min(MaxEntries, Len(ProjectPool))}

PathSegments == {NameTmp, NameEtc, DotDot, Dot, <<"s">>, <<>>}

SegmentLists == UNION {[1..n -> PathSegments] : n \in 0..MaxSegs}

\* request paths: every list of segments, relative and absolute, and some more
RawPaths ==
    {JoinSegs(q, Slash) : q \in SegmentLists}
    \cup {Slash \o JoinSegs(q, Slash) : q \in SegmentLists}
    \cup { <<"/", "t", "m", "p", "x">>, <<"/", "v", "a", "r">>,
           <<"/", "v", "a", "r", "/", "t", "m", "p">>, <<"/", "h", "o", "m", "e">>,
           <<"/", "w">>, <<"/", "w", "/", "s">>, <<"/", "t", "m", "p", "/", "b">>,
           <<"/", "t", "m", "p", "/", ".", ".", "/", "e", "t", "c">>,
           <<"/", "w", "w">>, <<"/", "e", "t", "c", "/", "c">> }

FalsyPaths == {JAbsent, JNull, JStr(<<>>), JNum(0), JBool(FALSE)}
PathValues == {JStr(p) : p \in RawPaths} \cup FalsyPaths \cup {JNum(5), JBool(TRUE)}

ScanPaths == { <<"/", "t", "m", "p">>, <<"/", "t", "m", "p", "/", "s">> }

\* how a Windows request path may start: a drive in either case and with
\* either separator, the root of the current drive, nothing (relative), a
\* drive without a root, another drive, a UNC share
Win32Starts ==
    { <<"C", ":", "\\">>, <<"c", ":", "/">>, <<"\\">>, <<>>, <<"C", ":">>,
      <<"D", ":", "\\">>, <<"d", ":">>, <<"\\", "\\", "n", "\\", "s", "\\">> }

Win32Segments == {NameTmp, <<"s">>}

Win32SegmentLists == UNION {[1..n -> Win32Segments] : n \in 0..MaxSegs}

DriveRoots == {<<UpperLetters[k], ":", "\\">> : k \in 1..Len(UpperLetters)}

Win32RawPaths ==
    {start \o JoinSegs(q, Backslash) : start \in Win32Starts, q \in Win32SegmentLists}
    \cup DriveRoots
    \cup { <<"C", ":", "\\", "t", "m", "p", "\\", "b">>,
           <<"C", ":", "/", "t", "m", "p", "/", "s", "/", "d">>,
           <<"/", "/", "t", "m", "p">>, <<"1", ":", "\\", "s">>,
           <<".", ".">>, <<".", "\\", "s">>, <<".", ".", "/", "e", "t", "c", "/", "c">>,
           <<"C", ":", "\\", "t", "m", "p", "\\", ".", ".", "\\", "w">>,
           <<"c", ":", ".", ".", "\\", "t", "m", "p", "x">>,
           <<"t", "m", "p", "\\", ".", ".", "\\", ".", ".", "\\", "e", "t", "c">>,
           <<"D", ":", "\\", ".", ".", "\\", "t", "m", "p">> }

Win32ScanPaths ==
    { <<"C", ":", "\\", "t", "m", "p">>, <<"c", ":", "/", "t", "m", "p", "/", "s">> }

LimitValues ==
    {JAbsent, JNull, JBool(TRUE)}
    \cup {JNum(n) : n \in {-5, 0, 1, 2, 3, 4, 5, 100, 101, 500}}
    \cup {JStr(t) : t \in { <<>>, <<"a", "b", "c">>, <<"2">>, <<" ", "3", "p", "x">>,
                            <<"0", "x", "2">>, <<"-", "0">>, <<"+", "4">>,
                            <<"1", "e", "3">>, <<"0", "2", "0">> }}

\* the requests sent to a server of a platform
Requests(plat) ==
    IF plat = "win32"
    THEN {Malformed}
         \cup {Body(JStr(p), JAbsent) : p \in Win32RawPaths}
         \cup {Body(p, JAbsent) : p \in FalsyPaths \cup {JNum(5), JBool(TRUE)}}
         \cup {Body(JStr(p), fl) : p \in Win32ScanPaths, fl \in LimitValues}
    ELSE {Malformed}
         \cup {Body(p, JAbsent) : p \in PathValues}
         \cup {Body(p, fl) : p \in FalsyPaths, fl \in LimitValues}
         \cup {Body(JStr(p), fl) : p \in ScanPaths, fl \in LimitValues}

\* ------------------------------------------------------------------------
\* State

VARIABLES
    platform,      \* process.platform: "posix" or "win32"
    cwd,           \* process.cwd()
    disk,          \* the filesystem
    pc,            \* where the handler is: "idle", "stat", "scan", "done"
    request,       \* the body of the request being handled, if any
    limit,         \* const limit
    resolvedPath,  \* const resolvedPath
    stack,         \* the activations of scanDirectory, innermost last
    calls,         \* the calls of scanDirectory that have returned
    outstanding,   \* the filesystem operations awaited
    fsLog,         \* every filesystem operation issued, in order
    failures,      \* how many readdir calls have failed
    response       \* the response, once sent

vars == <<platform, cwd, disk, pc, request, limit, resolvedPath, stack, calls,
          outstanding, fsLog, failures, response>>

env == <<platform, cwd, disk>>

Init ==
    /\ platform \in Platforms
    /\ cwd = Cwd(platform)
    /\ disk \in Disks
    /\ pc = "idle"
    /\ request = None
    /\ limit = 0
    /\ resolvedPath = <<>>
    /\ stack = <<>>
    /\ calls = <<>>
    /\ outstanding = {}
    /\ fsLog = <<>>
    /\ failures = 0
    /\ response = None

FsOp(op, path) == [op |-> op, path |-> path]

\* the handler answers without having touched the filesystem
Reply(req, resp) ==
    /\ request' = Some(req)
    /\ response' = Some(resp)
    /\ pc' = "done"
    /\ UNCHANGED <<env, limit, resolvedPath, stack, calls, outstanding, fsLog, failures>>

\* request.json() rejects: the catch of POST answers 500
PostMalformed(req) ==
    /\ pc = "idle"
    /\ ~req.json
    /\ Reply(req, ErrorResponse(500, "Internal server error"))

\* if (!requestedPath)
PostNoPath(req) ==
    /\ pc = "idle"
    /\ req.json
    /\ Falsy(req.path)
    /\ Reply(req, ErrorResponse(400, "Path is required"))

\* a truthy path that is no string: requestedPath.startsWith throws
PostNotString(req) ==
    /\ pc = "idle"
    /\ req.json
    /\ ~Falsy(req.path)
    /\ req.path.kind # "str"
    /\ request' = Some(req)
    /\ limit' = AppliedLimit(req.fileLimit)
    /\ response' = Some(ErrorResponse(500, "Internal server error"))
    /\ pc' = "done"
    /\ UNCHANGED <<env, resolvedPath, stack, calls, outstanding, fsLog, failures>>

\* if (!isAllowed)
PostDenied(req) ==
    /\ pc = "idle"
    /\ req.json
    /\ ~Falsy(req.path)
    /\ req.path.kind = "str"
    /\ LET resolved == ResolvedPath(platform, cwd, req.path.str)
       IN  /\ ~IsAllowed(platform, cwd, resolved)
           /\ resolvedPath' = resolved
    /\ request' = Some(req)
    /\ limit' = AppliedLimit(req.fileLimit)
    /\ response' = Some(ErrorResponse(403, "Access to this path is not allowed"))
    /\ pc' = "done"
    /\ UNCHANGED <<env, stack, calls, outstanding, fsLog, failures>>

\* the path is allowed: await fs.stat(resolvedPath)
PostAllowed(req) ==
    /\ pc = "idle"
    /\ req.json
    /\ ~Falsy(req.path)
    /\ req.path.kind = "str"
    /\ LET resolved == ResolvedPath(platform, cwd, req.path.str)
       IN  /\ IsAllowed(platform, cwd, resolved)
           /\ resolvedPath' = resolved
           /\ outstanding' = {FsOp("stat", resolved)}
           /\ fsLog' = Append(fsLog, FsOp("stat", resolved))
    /\ request' = Some(req)
    /\ limit' = AppliedLimit(req.fileLimit)
    /\ pc' = "stat"
    /\ UNCHANGED <<env, stack, calls, failures, response>>

\* fs.stat throws
StatMissing ==
    /\ pc = "stat"
    /\ FsStat(platform, disk, resolvedPath) = None
    /\ response' = Some(ErrorResponse(404, "Directory not found"))
    /\ outstanding' = {}
    /\ pc' = "done"
    /\ UNCHANGED <<env, request, limit, resolvedPath, stack, calls, fsLog, failures>>

\* !stats.isDirectory()
StatNotDirectory ==
    /\ pc = "stat"
    /\ FsStat(platform, disk, resolvedPath) = Some(FALSE)
    /\ response' = Some(ErrorResponse(400, "Path must be a directory"))
    /\ outstanding' = {}
    /\ pc' = "done"
    /\ UNCHANGED <<env, request, limit, resolvedPath, stack, calls, fsLog, failures>>

\* a directory: scanDirectory(resolvedPath, '', limit) awaits its readdir
StatDirectory ==
    /\ pc = "stat"
    /\ FsStat(platform, disk, resolvedPath) = Some(TRUE)
    /\ stack' = <<NewFrame(resolvedPath, <<>>)>>
    /\ outstanding' = {FsOp("readdir", resolvedPath)}
    /\ fsLog' = Append(fsLog, FsOp("readdir", resolvedPath))
    /\ pc' = "scan"
    /\ UNCHANGED <<env, request, limit, resolvedPath, calls, failures, response>>

ScanState == [stack |-> stack, structure |-> None, threw |-> FALSE, calls |-> calls]

\* a scan that starts its next readdir without having awaited the last
ResumeUnawaited(st) ==
    /\ stack' = st.stack
    /\ calls' = st.calls
    /\ IF st.threw
       THEN /\ response' = Some(ErrorResponse(500, "Internal server error"))
            /\ outstanding' = {}
            /\ pc' = "done"
            /\ UNCHANGED fsLog
       ELSE IF st.structure # None
       THEN /\ response' = Some(SuccessResponse(st.structure[1], resolvedPath, limit))
            /\ outstanding' = {}
            /\ pc' = "done"
            /\ UNCHANGED fsLog
       ELSE /\ outstanding' = outstanding \cup {FsOp("readdir", Top(st).dirPath)}
            /\ fsLog' = Append(fsLog, FsOp("readdir", Top(st).dirPath))
            /\ pc' = "scan"
            /\ UNCHANGED response

\* the scan has run up to its next await, or to the end of the handler
Resume(st) ==
    /\ stack' = st.stack
    /\ calls' = st.calls
    /\ IF st.threw
       THEN /\ response' = Some(ErrorResponse(500, "Internal server error"))
            /\ outstanding' = {}
            /\ pc' = "done"
            /\ UNCHANGED fsLog
       ELSE IF st.structure # None
       THEN /\ response' = Some(SuccessResponse(st.structure[1], resolvedPath, limit))
            /\ outstanding' = {}
            /\ pc' = "done"
            /\ UNCHANGED fsLog
       ELSE /\ outstanding' = {FsOp("readdir", Top(st).dirPath)}
            /\ fsLog' = Append(fsLog, FsOp("readdir", Top(st).dirPath))
            /\ pc' = "scan"
            /\ UNCHANGED response

\* the awaited readdir resolves, with the entries in some order
ReaddirResolves ==
    /\ pc = "scan"
    /\ \E items \in ListingOrders(FsReaddir(platform, disk, Top(ScanState).dirPath)) :
           Resume(ScanListed(platform, limit, ScanState, items))
    /\ UNCHANGED <<env, request, limit, resolvedPath, failures>>

\* the awaited readdir rejects (the directory vanished or cannot be read)
ReaddirRejects ==
    /\ pc = "scan"
    /\ failures < MaxFailures
    /\ failures' = failures + 1
    /\ Resume(ScanCatch(platform, limit, ScanState))
    /\ UNCHANGED <<env, request, limit, resolvedPath>>

Next ==
    \/ \E req \in Requests(platform) : PostMalformed(req)
    \/ \E req \in Requests(platform) : PostNoPath(req)
    \/ \E req \in Requests(platform) : PostNotString(req)
    \/ \E req \in Requests(platform) : PostDenied(req)
    \/ \E req \in Requests(platform) : PostAllowed(req)
    \/ StatMissing
    \/ StatNotDirectory
    \/ StatDirectory
    \/ ReaddirResolves
    \/ ReaddirRejects

Spec == Init /\ [][Next]_vars

\* ------------------------------------------------------------------------
\* What the properties speak of

Done == pc = "done"
Answer == response[1]
Succeeded == Done /\ Answer.status = 200
AskedPath == request[1].path
AskedString == request # None /\ request[1].json /\ AskedPath.kind = "str"

\* the name is one the scan leaves out: hidden, or a noise directory
Hidden(name) ==
    \/ name # <<>> /\ name[1] = "."
    \/ name \in {NodeModules, DotGit}

\* the entries of a directory of the disk that are not left out
Visible(dirEntry) ==
    {k \in 1..Len(dirEntry.entries) : ~Hidden(dirEntry.entries[k].name)}

IsSentinel(node) == node.truncated = Some(TRUE)

\* the path separator of the platform
Sep == IF platform = "win32" THEN Backslash ELSE Slash

\* the absolute path of an entry of a directory
Below(dirPath, name) ==
    IF Last(dirPath) = Sep[1] THEN dirPath \o name ELSE dirPath \o Sep \o name

\* C1: for every directory scanned (at any depth) with N entries surviving
\* the filter and limit L: N <= L gives exactly N nodes and no sentinel;
\* N > L gives exactly L nodes, the first L-1 being the first L-1 entries of
\* the sorted order and the last the only sentinel, with totalCount = N.
C1_PerLevelLimit ==
    \A k \in 1..Len(calls) :
        LET c == calls[k]
            N == IF c.ok THEN Cardinality(Visible(EntryAt(platform, disk, c.dirPath)[1])) ELSE 0
            L == limit
        IN  /\ L >= 1
            /\ N <= L =>
                  /\ Len(c.nodes) = N
                  /\ \A j \in 1..Len(c.nodes) : c.nodes[j].truncated = None
            /\ N > L =>
                  /\ Len(c.nodes) = L
                  /\ \A j \in 1..(L - 1) :
                        /\ c.nodes[j].name = c.allItems[j].name
                        /\ c.nodes[j].path = c.allItems[j].path
                        /\ c.nodes[j].type = c.allItems[j].type
                        /\ c.nodes[j].truncated = None
                  /\ IsSentinel(c.nodes[L])
                  /\ c.nodes[L].totalCount = Some(N)

\* a sub-directory was cut at the limit and another filled it exactly
C1_Witness ==
    /\ Succeeded
    /\ \E k \in 1..Len(calls) :
          /\ calls[k].basePath # <<>>
          /\ Len(calls[k].allItems) > limit
          /\ IsSentinel(Last(calls[k].nodes))
    /\ \E k \in 1..Len(calls) :
          /\ Len(calls[k].allItems) = limit
          /\ Len(calls[k].nodes) = limit

RECURSIVE TreeLeavesOutHidden(_, _)
TreeLeavesOutHidden(nodes, dirEntry) ==
    \A j \in 1..Len(nodes) :
        LET node == nodes[j]
            named == SelectSeq(dirEntry.entries, LAMBDA e : e.name = node.name)
        IN  IF IsSentinel(node)
            THEN node.totalCount = Some(Cardinality(Visible(dirEntry)))
            ELSE /\ ~Hidden(node.name)
                 /\ named # <<>>
                 /\ node.children # None =>
                        TreeLeavesOutHidden(node.children[1], named[1])

\* C2: no node of a returned tree, at any depth, is an entry whose name
\* begins with '.' or is node_modules or .git, and every sentinel's
\* totalCount is the number of entries of its directory that are not left out.
C2_HiddenNeverListed ==
    Succeeded => TreeLeavesOutHidden(Answer.structure[1], EntryAt(platform, disk, resolvedPath)[1])

\* a directory that holds hidden entries and a noise directory was cut
C2_Witness ==
    /\ Succeeded
    /\ \E e \in 1..Len(EntryAt(platform, disk, resolvedPath)[1].entries) :
          EntryAt(platform, disk, resolvedPath)[1].entries[e].name = NodeModules
    /\ \E e \in 1..Len(EntryAt(platform, disk, resolvedPath)[1].entries) :
          EntryAt(platform, disk, resolvedPath)[1].entries[e].name = NameDotEnv
    /\ Answer.structure[1] # <<>>
    /\ IsSentinel(Last(Answer.structure[1]))
    /\ Last(Answer.structure[1]).totalCount[1]
          < Len(EntryAt(platform, disk, resolvedPath)[1].entries)

RECURSIVE CanonBackwards(_, _)
\* the segments of a path that remain once '.' and '..' are resolved, read
\* from the last segment: each '..' cancels the nearest segment before it
CanonBackwards(segs, skip) ==
    IF segs = <<>> THEN <<>>
    ELSE LET seg == Last(segs)
             before == Front(segs)
         IN  IF seg = <<>> \/ seg = Dot THEN CanonBackwards(before, skip)
             ELSE IF seg = DotDot THEN CanonBackwards(before, skip + 1)
             ELSE IF skip > 0 THEN CanonBackwards(before, skip - 1)
             ELSE Append(CanonBackwards(before, 0), seg)

\* the canonical absolute path a request path stands for
Canonical(workDir, raw) ==
    LET full == IF raw[1] = "/" THEN raw ELSE workDir \o Slash \o raw
    IN  Slash \o JoinSegs(CanonBackwards(Split(full, {"/"}), 0), Slash)

\* the allow-list of a POSIX-style platform, as the specification words it
PosixPolicy(workDir, canon) ==
    \E pre \in {workDir, <<"/", "t", "m", "p">>, <<"/", "h", "o", "m", "e">>,
                <<"/", "U", "s", "e", "r", "s">>,
                <<"/", "v", "a", "r", "/", "t", "m", "p">>} :
        StartsWith(canon, pre)

\* the allow-list of a drive-letter platform, as the specification words
\* it: a drive letter, in either case, and the drive separator come first
DrivePolicy(canon) ==
    /\ Len(canon) >= 3
    /\ IsDeviceLetter(canon[1])
    /\ canon[2] = ":"
    /\ canon[3] = "\\"

AskedNonEmpty == AskedString /\ AskedPath.str # <<>>
AskedCanonical == Canonical(cwd, AskedPath.str)

\* the path the handler checks and opens: the canonical path on a
\* POSIX-style platform, what path.resolve gives on a drive-letter one
AskedResolved ==
    IF platform = "win32" THEN ResolvedPath(platform, cwd, AskedPath.str)
    ELSE AskedCanonical

\* the allow-list of the platform holds of the path asked for
AskedWithinPolicy ==
    IF platform = "win32" THEN DrivePolicy(AskedResolved)
    ELSE PosixPolicy(cwd, AskedCanonical)

\* C3: on a POSIX-style platform the allow-list is applied to the
\* canonical path, not to the raw string: a request with a non-empty path is
\* answered 403 exactly when its canonical path has none of the working
\* directory, /tmp, /home, /Users, /var/tmp as a prefix; /etc and
\* /tmp/../etc are answered 403.
C3_PolicyOnResolvedPath ==
    (platform = "posix" /\ AskedNonEmpty) =>
        /\ PosixPolicy(cwd, AskedCanonical) => ~(Done /\ Answer.status = 403)
        /\ ~PosixPolicy(cwd, AskedCanonical) => (Done /\ Answer.status = 403)
        /\ AskedPath.str \in { <<"/", "e", "t", "c">>,
                               <<"/", "t", "m", "p", "/", ".", ".", "/", "e", "t", "c">> }
               => (Done /\ Answer.status = 403)

\* a raw path under /tmp that resolves outside the allow-list was refused
C3_Witness ==
    /\ Done
    /\ AskedString
    /\ AskedPath.str = <<"/", "t", "m", "p", "/", ".", ".", "/", "e", "t", "c">>
    /\ Answer.status = 403
    /\ EntryAt(platform, disk, resolvedPath) # None

Refusals == {"Path is required", "Access to this path is not allowed"}

\* C4: no stat or readdir is issued before the allow-list decision, none at
\* all for a request refused as invalid or denied, and a request whose
\* resolved path fails the policy is answered 403 whatever the disk holds.
C4_NoAccessBeforePolicy ==
    /\ request = None => (fsLog = <<>> /\ outstanding = {})
    /\ (Done /\ Answer.error # None /\ Answer.error[1] \in Refusals)
           => (fsLog = <<>> /\ outstanding = {})
    /\ (fsLog # <<>> \/ outstanding # {}) =>
           /\ AskedNonEmpty
           /\ AskedWithinPolicy
           /\ fsLog[1] = FsOp("stat", AskedResolved)
           /\ \A op \in outstanding : \E k \in 1..Len(fsLog) : fsLog[k] = op
    /\ (AskedNonEmpty /\ ~AskedWithinPolicy)
           => (Done /\ Answer.status = 403 /\ fsLog = <<>>)

\* a request for a file that exists outside the allow-list was refused
\* without a filesystem operation
C4_Witness ==
    /\ Done
    /\ Answer.status = 403
    /\ fsLog = <<>>
    /\ EntryAt(platform, disk, resolvedPath) # None
    /\ ~EntryAt(platform, disk, resolvedPath)[1].isDir

\* the request passed the allow-list: it was not answered 403; on a
\* POSIX-style platform, also, every request whose canonical path the
\* allow-list holds of
AskedPassed ==
    /\ AskedNonEmpty
    /\ \/ Answer.status # 403
       \/ platform = "posix" /\ PosixPolicy(cwd, AskedCanonical)

\* C5: a request that passes the allow-list is answered 404 when the
\* resolved path does not exist and 400 (not a directory) when it exists
\* but is no directory; a missing or empty path is answered 400 (path
\* required) whatever else the request holds; a failure response carries an
\* error message and no structure, path, count or fileLimit.
C5_FailureResponses ==
    Done =>
        /\ (request[1].json
            /\ (AskedPath.kind = "absent" \/ (AskedPath.kind = "str" /\ AskedPath.str = <<>>)))
               => (Answer.status = 400 /\ Answer.error = Some("Path is required"))
        /\ AskedPassed =>
               /\ EntryAt(platform, disk, AskedResolved) = None
                     => (Answer.status = 404 /\ Answer.error = Some("Directory not found"))
               /\ (EntryAt(platform, disk, AskedResolved) # None
                   /\ ~EntryAt(platform, disk, AskedResolved)[1].isDir)
                     => (Answer.status = 400 /\ Answer.error = Some("Path must be a directory"))
        /\ Answer.status # 200 =>
               /\ Answer.error # None
               /\ Answer.structure = None
               /\ Answer.path = None
               /\ Answer.count = None
               /\ Answer.fileLimit = None

\* an allowed path that names a file was answered 400, error only
C5_Witness ==
    /\ Done
    /\ Answer.error = Some("Path must be a directory")
    /\ Answer.status = 400
    /\ Len(fsLog) = 1

\* the handler has computed const limit
LimitApplied == request # None /\ request[1].json /\ ~Falsy(AskedPath)
AskedLimit == request[1].fileLimit

\* C6: the applied limit is an integer in [1, 100] for every fileLimit, the
\* inputs 0, -5, "abc" and 500 give 1, 1, 20 and 100, and the fileLimit of a
\* success response is the applied limit.
C6_LimitClamped ==
    LimitApplied =>
        /\ limit \in 1..100
        /\ AskedLimit = JNum(0) => limit = 1
        /\ AskedLimit = JNum(-5) => limit = 1
        /\ AskedLimit = JStr(<<"a", "b", "c">>) => limit = 20
        /\ AskedLimit = JNum(500) => limit = 100
        /\ Succeeded => Answer.fileLimit = Some(limit)

\* the call that scanned a directory, if it has returned
CallsOf(dirPath) == {k \in 1..Len(calls) : calls[k].dirPath = dirPath}

\* C7: once the stat has found a directory no listing failure fails the
\* request: the answer is 200; a scan root whose listing failed gives an
\* empty structure and count 0; a sub-directory whose listing failed is a
\* folder node without children; and every folder within the limit of its
\* level, before or after a failed one, is scanned and carries what its own
\* scan returned.
C7_ListingFailuresAbsorbed ==
    /\ (Done /\ Len(fsLog) >= 2) => Answer.status = 200
    /\ (Succeeded /\ \E k \in CallsOf(resolvedPath) : ~calls[k].ok)
           => (Answer.structure = Some(<<>>) /\ Answer.count = Some(0))
    /\ \A k \in 1..Len(calls) :
           \A j \in 1..Len(calls[k].nodes) :
               LET node == calls[k].nodes[j]
                   dirPath == Below(calls[k].dirPath, node.name)
               IN  (node.type = "folder" /\ ~IsSentinel(node)) =>
                       /\ Cardinality(CallsOf(dirPath)) = 1
                       /\ \A d \in CallsOf(dirPath) :
                              /\ d < k
                              /\ ~calls[d].ok => node.children = None
                              /\ calls[d].ok =>
                                    node.children = (IF calls[d].nodes = <<>> THEN None
                                                     ELSE Some(calls[d].nodes))

\* the listing of one sub-directory failed; the request succeeded, the
\* folder is in the answer without children, and a later sibling has its own
C7_Witness ==
    /\ Succeeded
    /\ \E i, j \in 1..Len(Answer.structure[1]) :
          /\ i < j
          /\ Answer.structure[1][i].type = "folder"
          /\ Answer.structure[1][i].children = None
          /\ \E d \in CallsOf(Below(resolvedPath, Answer.structure[1][i].name)) :
                ~calls[d].ok
          /\ Answer.structure[1][j].type = "folder"
          /\ Answer.structure[1][j].children # None

RECURSIVE PathsJoined(_, _)
PathsJoined(nodes, parentPath) ==
    \A j \in 1..Len(nodes) :
        /\ nodes[j].path = (IF parentPath = None THEN nodes[j].name
                            ELSE parentPath[1] \o Sep \o nodes[j].name)
        /\ nodes[j].children # None =>
               PathsJoined(nodes[j].children[1], Some(nodes[j].path))

\* C8: every node of a returned tree, sentinels included, has its name as
\* path at the root level and its parent's path joined with its name below.
C8_PathIsParentJoinName ==
    Succeeded => PathsJoined(Answer.structure[1], None)

\* C9 as claimed: in every emitted sibling sequence every folder node
\* precedes every file node, and within a kind names do not decrease under
\* the locale-aware comparison.
C9_FoldersFirstAllNodes ==
    \A k \in 1..Len(calls) :
        \A i, j \in 1..Len(calls[k].nodes) :
            LET a == calls[k].nodes[i]
                b == calls[k].nodes[j]
            IN  i < j =>
                    /\ ~(a.type = "file" /\ b.type = "folder")
                    /\ a.type = b.type => LocaleCompare(a.name, b.name) <= 0

\* C9 amended: the same of the nodes that are not sentinels; a sentinel,
\* of kind folder and named '...', is the last node of its sequence.
C9_FoldersFirstEntries ==
    \A k \in 1..Len(calls) :
        \A i, j \in 1..Len(calls[k].nodes) :
            LET a == calls[k].nodes[i]
                b == calls[k].nodes[j]
            IN  /\ (i < j /\ ~IsSentinel(a) /\ ~IsSentinel(b)) =>
                       /\ ~(a.type = "file" /\ b.type = "folder")
                       /\ a.type = b.type => LocaleCompare(a.name, b.name) <= 0
                /\ IsSentinel(a) =>
                       /\ i = Len(calls[k].nodes)
                       /\ a.type = "folder"
                       /\ a.name = Ellipsis

\* a listing that came back unsorted was emitted folder first, names in
\* order in both cases of a letter, and cut by a sentinel after a file
C9_Witness ==
    \E k \in 1..Len(calls) :
        LET ns == calls[k].nodes
        IN  /\ Len(ns) >= 3
            /\ ns[1].type = "folder" /\ ~IsSentinel(ns[1])
            /\ ns[Len(ns) - 1].type = "file"
            /\ IsSentinel(ns[Len(ns)])
            /\ \E i, j \in 1..Len(calls[k].allItems) :
                  /\ i < j
                  /\ calls[k].allItems[i].name = <<"a">>
                  /\ calls[k].allItems[j].name = <<"A">>

RECURSIVE Positions(_)
\* the place of every node of a tree: the indexes that lead to it
Positions(nodes) ==
    UNION {{<<j>>} \cup (IF nodes[j].children = None THEN {}
                         ELSE {<<j>> \o q : q \in Positions(nodes[j].children[1])})
           : j \in 1..Len(nodes)}

\* C10: the count of a success response is the number of nodes of the
\* returned structure, every node at every depth once, sentinels included.
C10_CountIsTreeSize ==
    Succeeded => Answer.count = Some(Cardinality(Positions(Answer.structure[1])))

\* a tree with nested nodes and sentinels at two levels was counted
C10_Witness ==
    /\ Succeeded
    /\ Answer.count[1] > Len(Answer.structure[1])
    /\ IsSentinel(Last(Answer.structure[1]))
    /\ \E j \in 1..Len(Answer.structure[1]) :
          /\ Answer.structure[1][j].children # None
          /\ IsSentinel(Last(Answer.structure[1][j].children[1]))

\* the entry of a directory of the disk that bears a name
Named(dirEntry, name) ==
    SelectSeq(dirEntry.entries, LAMBDA e : e.name = name)[1]

RECURSIVE DiskOrderTree(_, _, _)
\* what a scan of a directory returns when every listing comes back in the
\* order the disk keeps the entries in and no listing fails
DiskOrderTree(dirEntry, basePath, lim) ==
    LET listing == [j \in 1..Len(dirEntry.entries) |->
                       [name |-> dirEntry.entries[j].name,
                        isDir |-> dirEntry.entries[j].isDir]]
        items == SortItems(FirstPass(platform, listing, basePath))
        cut == Len(items) > lim
        kept == IF cut THEN SubSeq(items, 1, lim - 1) ELSE items
    IN  [j \in 1..Len(kept) |->
            IF kept[j].type = "file" THEN FileNode(kept[j])
            ELSE FolderNode(kept[j],
                     DiskOrderTree(Named(dirEntry, kept[j].name), kept[j].path, lim))]
        \o (IF cut THEN <<TruncatedNode(basePath, Len(items))>> ELSE <<>>)

\* C11: a scan in which no listing failed returns the one structure its
\* directory tree and limit determine, the same as a scan whose listings
\* come back in disk order, whatever order its own listings came back in;
\* so two scans of an unchanged tree with the same limit return identical
\* structures.
C11_SameTreeSameStructure ==
    (Succeeded /\ failures = 0) =>
        Answer.structure[1]
            = DiskOrderTree(EntryAt(platform, disk, resolvedPath)[1], <<>>, limit)

RECURSIVE SlashJoined(_, _)
\* the path of every node is the names from the scan root down to the
\* node, joined with '/'
SlashJoined(nodes, above) ==
    \A j \in 1..Len(nodes) :
        /\ nodes[j].path = JoinSegs(Append(above, nodes[j].name), Slash)
        /\ nodes[j].children # None =>
               SlashJoined(nodes[j].children[1], Append(above, nodes[j].name))

\* C12: on every platform, one whose separator is a backslash included, the
\* path of every node of a returned tree is its segments (the names from
\* the scan root down to the node) joined with forward slashes.
C12_ForwardSlashPaths ==
    Succeeded => SlashJoined(Answer.structure[1], <<>>)

\* C13: on a drive-letter platform a request whose resolved path begins
\* with a drive letter from A to Z and the drive separator is not answered
\* 403; so is, for every letter, the request for the root of that drive.
C13_EveryDriveAccepted ==
    (platform = "win32" /\ Done /\ AskedNonEmpty) =>
        /\ DrivePolicy(AskedResolved) => Answer.status # 403
        /\ AskedPath.str \in DriveRoots => Answer.status # 403

\* a path is a directory or lies within it
Within(path, dirPath) ==
    \/ path = dirPath
    \/ StartsWith(path, IF Last(dirPath) = Sep[1] THEN dirPath ELSE dirPath \o Sep)

\* the places in the log of the listings issued
Listings == {k \in 1..Len(fsLog) : fsLog[k].op = "readdir"}

\* C14: at every moment at most one filesystem operation of the request
\* is awaited, the one issued last; no directory is listed twice; while a
\* listing is awaited every directory listed before it either contains the
\* one being listed or has its scan returned; and the listings of a
\* directory and of all below it are issued one after the other, its own
\* first, before any listing of a later sibling.
C14_OneListingAtATime ==
    /\ Cardinality(outstanding) <= 1
    /\ \A op \in outstanding : fsLog # <<>> /\ op = Last(fsLog)
    /\ \A k, m \in Listings : fsLog[k].path = fsLog[m].path => k = m
    /\ (pc = "scan") =>
           /\ outstanding = {FsOp("readdir", Last(fsLog).path)}
           /\ \A k \in Listings :
                  k < Len(fsLog) =>
                      \/ Within(Last(fsLog).path, fsLog[k].path)
                      \/ CallsOf(fsLog[k].path) # {}
    /\ \A k, m, n \in Listings :
           (k < m /\ m < n /\ Within(fsLog[n].path, fsLog[k].path))
               => Within(fsLog[m].path, fsLog[k].path)
    /\ \A k, m \in Listings :
           (Within(fsLog[m].path, fsLog[k].path)) => k <= m

\* a directory and one below it were listed, and then a later sibling of
\* the first; the request has been answered
C14_Witness ==
    /\ Succeeded
    /\ outstanding = {}
    /\ \E k, m, n \in Listings :
          /\ k < m /\ m < n
          /\ fsLog[m].path # fsLog[k].path
          /\ Within(fsLog[m].path, fsLog[k].path)
          /\ ~Within(fsLog[n].path, fsLog[k].path)
          /\ fsLog[k].path # resolvedPath

\* the directories a listing was issued for
ReadDirs == {fsLog[k].path : k \in Listings}

RECURSIVE FoldersOf(_, _)
\* the directories the folder nodes of a tree stand for
FoldersOf(nodes, dirPath) ==
    UNION {IF nodes[j].type = "folder" /\ ~IsSentinel(nodes[j])
           THEN {Below(dirPath, nodes[j].name)}
                \cup (IF nodes[j].children = None THEN {}
                      ELSE FoldersOf(nodes[j].children[1],
                                     Below(dirPath, nodes[j].name)))
           ELSE {}
           : j \in 1..Len(nodes)}

ResultFolders == FoldersOf(Answer.structure[1], resolvedPath)

\* the scans that found more entries than the limit, and for each the
\* entry at sorted position L, which the sentinel replaced
CutCalls == {k \in 1..Len(calls) : calls[k].ok /\ Len(calls[k].allItems) > limit}
Discarded(k) == calls[k].allItems[limit]
DiscardedFolders ==
    {Below(calls[k].dirPath, Discarded(k).name) :
        k \in {c \in CutCalls : Discarded(c).type = "folder"}}

\* what C15 says of every truncated level: the entry at position L is not
\* among the nodes returned; if it is a folder it was listed and its scan
\* returned; no entry after position L was listed
DiscardedAfterProcessing ==
    \A k \in CutCalls :
        /\ \A j \in 1..Len(calls[k].nodes) :
               IsSentinel(calls[k].nodes[j]) \/ calls[k].nodes[j].name # Discarded(k).name
        /\ Discarded(k).type = "folder" =>
               /\ Below(calls[k].dirPath, Discarded(k).name) \in ReadDirs
               /\ CallsOf(Below(calls[k].dirPath, Discarded(k).name)) # {}
        /\ \A j \in (limit + 1)..Len(calls[k].allItems) :
               Below(calls[k].dirPath, calls[k].allItems[j].name) \notin ReadDirs

\* C15 as claimed: every truncated level is as above, and the directories
\* read are the scan root, the folders of the result and the discarded
\* folders, one per truncated level at most.
C15_ReadsAsClaimed ==
    Succeeded =>
        /\ DiscardedAfterProcessing
        /\ ReadDirs = {resolvedPath} \cup ResultFolders \cup DiscardedFolders

\* C15 amended: every truncated level is as above; the folders of the
\* result and the discarded folders are read; every directory read is the
\* scan root, a folder of the result, or a discarded folder or a directory
\* below one; and every directory read but the root is a folder among the
\* first L sorted entries of a directory that was read.
C15_ReadsWithDiscardedSubtrees ==
    Succeeded =>
        /\ DiscardedAfterProcessing
        /\ {resolvedPath} \cup ResultFolders \cup DiscardedFolders \subseteq ReadDirs
        /\ \A p \in ReadDirs :
               \/ p = resolvedPath
               \/ p \in ResultFolders
               \/ \E d \in DiscardedFolders : Within(p, d)
        /\ \A p \in ReadDirs \ {resolvedPath} :
               \E k \in 1..Len(calls) :
                   \E j \in 1..Min(limit, Len(calls[k].allItems)) :
                       /\ calls[k].allItems[j].type = "folder"
                       /\ Below(calls[k].dirPath, calls[k].allItems[j].name) = p

\* a level was cut at a folder, which was listed with a folder below it,
\* and a folder after it was not listed
C15_Witness ==
    /\ Succeeded
    /\ \E k \in CutCalls :
          /\ Discarded(k).type = "folder"
          /\ \E p \in ReadDirs :
                /\ p # Below(calls[k].dirPath, Discarded(k).name)
                /\ Within(p, Below(calls[k].dirPath, Discarded(k).name))
                /\ p \notin ResultFolders
          /\ \E j \in (limit + 1)..Len(calls[k].allItems) :
                /\ calls[k].allItems[j].type = "folder"
                /\ Below(calls[k].dirPath, calls[k].allItems[j].name) \notin ReadDirs

====
